---- MODULE Spec2Model ----
(***************************************************************************)
(* A model of reissue (lib/index.js): a recurring-task scheduler built on  *)
(* setTimeout.  The state is the fields of one Reissue object, the timers  *)
(* and setImmediate callbacks it has handed to the event loop, and the     *)
(* clock.  Each public method, timer callback and the completion callback  *)
(* is one action.                                                          *)
(***************************************************************************)
EXTENDS Integers, Sequences, FiniteSets, TLC

\* ---- bounds of the model ------------------------------------------------
\* start() calls accepted, invocations begun and clock ticks in one behaviour
MaxEvents == 5

\* ---- encodings ----------------------------------------------------------
Null == -1            \* JavaScript null (a cleared handle, an absent option)
Undefined == -2       \* an omitted argument

\* the delays start(delay) is called with (Undefined: no delay given)
DelayOpts == {Undefined, 0, 1}
\* the number given as opts.interval
IntervalNumber == 1

\* The configurations create() is called with.  timeout: opts.timeout, absent,
\* 0 or a number.  unref: opts.unref.  interval: opts.interval, the number
\* IntervalNumber or a function of elapsedTime whose value falls below the
\* elapsed time.  listener: what is subscribed to 'error': nothing, a
\* subscriber that only observes, or one that calls stop().  context:
\* opts.context, absent ({}) or an object.  args: opts.args, absent ({}) or an
\* array.  Every pair of values of the first four options occurs in some
\* configuration.
Configs ==
    {[timeout |-> Undefined, unref |-> FALSE, interval |-> "number",   listener |-> "none",
      context |-> {},        args |-> {}],
     [timeout |-> 1,         unref |-> TRUE,  interval |-> "function", listener |-> "none",
      context |-> {"ctx"},   args |-> {<<"a", "b">>}],
     [timeout |-> 0,         unref |-> TRUE,  interval |-> "function", listener |-> "observe",
      context |-> {},        args |-> {<<"a", "b">>}],
     [timeout |-> 1,         unref |-> FALSE, interval |-> "number",   listener |-> "observe",
      context |-> {"ctx"},   args |-> {<<>>}],
     [timeout |-> Undefined, unref |-> FALSE, interval |-> "function", listener |-> "stop",
      context |-> {"ctx"},   args |-> {}],
     [timeout |-> 1,         unref |-> TRUE,  interval |-> "number",   listener |-> "stop",
      context |-> {},        args |-> {<<"a">>}]}

VARIABLES
    active,            \* self._active
    startTime,         \* self._startTime
    inUserFunc,        \* self._inUserFunc
    nextHandlerId,     \* self._nextHandlerId: a timer id or Null
    timeoutHandlerId,  \* self._timeoutHandlerId: a timer id or Null
    timeoutMs,         \* self._timeoutMs
    unref,             \* self._unref
    intervalOpt,       \* opts.interval, behind self._interval
    errorListener,     \* the subscriber of 'error'
    context,           \* opts.context: {} or the set of one object
    args,              \* opts.args: {} or the set of one array
    funcContext,       \* self._funcContext
    funcArgs,          \* self._funcArgs
    timers,            \* live timers of the event loop: handle, kind, time due, unref'ed,
                       \* the invocation a stall timer is for, the method that armed it
    invocations,       \* invocations begun whose continuation is not yet called
    now,               \* the clock (Date.now() and the timer clock)
    events,            \* start() calls accepted, invocations begun and clock ticks so far
    stopped,           \* a stop event was published since the last successful start()
    previous,          \* the invocation completed last since the last successful start()
    continuationCalled, \* the task has called the completion continuation at least once
    calls,             \* the calls of start() and stop() so far, by the caller, the
                       \* task or a subscriber: "none", "start" (one start() without a
                       \* delay), "start,stop" (then one stop() before the task was
                       \* called) or "other"
    last               \* the last operation: what it was, on what state, with what effect

vars == <<active, startTime, inUserFunc, nextHandlerId, timeoutHandlerId,
          timeoutMs, unref, intervalOpt, errorListener, context, args,
          funcContext, funcArgs, timers, invocations,
          now, events, stopped, previous, continuationCalled, calls, last>>

\* ---- helpers -------------------------------------------------------------
Max(a, b) == IF a >= b THEN a ELSE b

NextTimers(ts) == {t \in ts : t.kind = "next"}
StallTimers(ts) == {t \in ts : t.kind = "timeout"}

\* the numbers of the outstanding invocations
Outstanding(invs) == {i.n : i \in invs}

\* the number of times event ev occurs in the sequence of events s
Count(s, ev) == Cardinality({i \in 1..Len(s) : s[i] = ev})

\* the fields of the object and of the event loop that the methods change,
\* with the events emitted and the exception thrown by the running method
Machine ==
    [active |-> active, startTime |-> startTime, inUserFunc |-> inUserFunc,
     nextHandlerId |-> nextHandlerId, timeoutHandlerId |-> timeoutHandlerId,
     timers |-> timers, invocations |-> invocations,
     emitted |-> <<>>, threw |-> "none"]

\* a handle no live timer and no field of the object holds: setTimeout
\* returns a new object on every call
FreshId(m) ==
    LET used == {t.id : t \in m.timers} \cup {m.nextHandlerId, m.timeoutHandlerId}
    IN  CHOOSE id \in 1..(Cardinality(used) + 1) :
            /\ id \notin used
            /\ \A k \in 1..(id - 1) : k \in used

\* a number for the invocation _execute begins: not that of an outstanding
\* invocation, nor that of an invocation whose stall timer is still live
FreshInvocation(m) ==
    LET used == Outstanding(m.invocations) \cup {t.inv : t \in StallTimers(m.timers)}
    IN  CHOOSE n \in 1..(Cardinality(used) + 1) :
            /\ n \notin used
            /\ \A k \in 1..(n - 1) : k \in used

\* clearTimeout(id)
clearTimeout(ts, id) == {t \in ts : t.id # id}

\* self._interval(elapsedTime): a number is wrapped in a constant function
_interval(elapsedTime) ==
    CASE intervalOpt = "number" -> IntervalNumber
      [] intervalOpt = "function" -> 1 - elapsedTime

\* opts.context || null
_funcContext(optsContext) ==
    IF optsContext = {} THEN "null" ELSE CHOOSE c \in optsContext : TRUE

\* _funcArgs as it would be if the continuation were put first
_funcArgs_DoneFirst(optsArgs) ==
    IF optsArgs = {} THEN <<"boundDone">>
    ELSE <<"boundDone">> \o (CHOOSE a \in optsArgs : TRUE)

\* opts.args ? opts.args.concat(boundDone) : [boundDone]
_funcArgs(optsArgs) ==
    IF optsArgs = {} THEN <<"boundDone">>
    ELSE (CHOOSE a \in optsArgs : TRUE) \o <<"boundDone">>

\* opts.timeout || null: an absent option and 0 both give null
_timeoutMs(optsTimeout) ==
    IF optsTimeout = Undefined \/ optsTimeout = 0 THEN Null ELSE optsTimeout

\* ---- private methods -----------------------------------------------------

\* _execute as it would be if the stall timer were not unref'ed
_execute_KeepsStallTimerRef(m) ==
    LET inv == [n |-> FreshInvocation(m), startedAt |-> now, phase |-> "immediate",
                stop |-> "none", call |-> <<>>]
        m1 == [m EXCEPT !.startTime = now,
                        !.inUserFunc = TRUE,
                        !.invocations = @ \cup {inv}]
        id == FreshId(m1)
    IN  IF timeoutMs # Null
        THEN [m1 EXCEPT !.timeoutHandlerId = id,
                        !.timers = @ \cup {[id |-> id, kind |-> "timeout",
                                            due |-> now + timeoutMs,
                                            unref |-> FALSE,
                                            inv |-> inv.n, by |-> "execute"]}]
        ELSE m1

\* Reissue.prototype._execute: record the start time, set the flag, queue the
\* call of the task with setImmediate and arm the stall timer
_execute(m) ==
    LET inv == [n |-> FreshInvocation(m), startedAt |-> now, phase |-> "immediate",
                stop |-> "none", call |-> <<>>]
        m1 == [m EXCEPT !.startTime = now,
                        !.inUserFunc = TRUE,
                        !.invocations = @ \cup {inv}]
        id == FreshId(m1)
    IN  IF timeoutMs # Null
        THEN [m1 EXCEPT !.timeoutHandlerId = id,
                        !.timers = @ \cup {[id |-> id, kind |-> "timeout",
                                            due |-> now + timeoutMs,
                                            unref |-> (unref = TRUE),
                                            inv |-> inv.n, by |-> "execute"]}]
        ELSE m1

\* Reissue.prototype._stop: clear the next invocation if one exists, emit stop
_stop(m) ==
    LET m1 == IF m.nextHandlerId # Null
              THEN [m EXCEPT !.timers = clearTimeout(@, m.nextHandlerId),
                             !.nextHandlerId = Null]
              ELSE m
    IN  [m1 EXCEPT !.emitted = Append(@, "stop")]

\* _onTimeout as it would be if a stall ended the schedule
_onTimeout_Cancels(m) ==
    IF m.active = TRUE
    THEN [m EXCEPT !.emitted = Append(@, "timeout"), !.active = FALSE]
    ELSE m

\* _onTimeout as it would be if it did not look at the active flag
_onTimeout_IgnoresActive(m) == [m EXCEPT !.emitted = Append(@, "timeout")]

\* Reissue.prototype._onTimeout: emit timeout only if still active
_onTimeout(m) ==
    IF m.active = TRUE THEN [m EXCEPT !.emitted = Append(@, "timeout")] ELSE m

\* ---- public methods ------------------------------------------------------

\* start() as it would be if it reset the schedule before refusing
start_ResetsBeforeThrow(m, delay) ==
    IF m.active = TRUE
    THEN [m EXCEPT !.timers = clearTimeout(@, m.nextHandlerId),
                   !.nextHandlerId = Null,
                   !.threw = "already active"]
    ELSE LET m1 == [m EXCEPT !.active = TRUE]
             id == FreshId(m1)
         IN  IF delay # Undefined
             THEN [m1 EXCEPT !.nextHandlerId = id,
                             !.timers = @ \cup {[id |-> id, kind |-> "next",
                                                 due |-> now + delay,
                                                 unref |-> (unref = TRUE),
                                                 inv |-> Null, by |-> "start"]}]
             ELSE _execute(m1)

\* Reissue.prototype.start
start(m, delay) ==
    IF m.active = TRUE
    THEN [m EXCEPT !.threw = "already active"]
    ELSE LET m1 == [m EXCEPT !.active = TRUE]
             id == FreshId(m1)
         IN  IF delay # Undefined
             THEN [m1 EXCEPT !.nextHandlerId = id,
                             !.timers = @ \cup {[id |-> id, kind |-> "next",
                                                 due |-> now + delay,
                                                 unref |-> (unref = TRUE),
                                                 inv |-> Null, by |-> "start"]}]
             ELSE _execute(m1)

\* stop() as it would be if it returned silently when not active
stop_SilentWhenInactive(m) ==
    IF m.active = FALSE
    THEN m
    ELSE IF m.inUserFunc = FALSE
         THEN _stop(m)
         ELSE [m EXCEPT !.active = FALSE]

\* Reissue.prototype.stop
stop(m) ==
    IF m.active = FALSE
    THEN _stop(m)
    ELSE IF m.inUserFunc = FALSE
         THEN _stop(m)
         ELSE [m EXCEPT !.active = FALSE]

\* self.emit('error', err): an EventEmitter with no subscriber of 'error'
\* throws err; otherwise the subscriber runs inside emit
emitError(m) ==
    CASE errorListener = "none" -> [m EXCEPT !.threw = "unhandled error"]
      [] errorListener = "observe" -> [m EXCEPT !.emitted = Append(@, "error")]
      [] errorListener = "stop" -> stop([m EXCEPT !.emitted = Append(@, "error")])

\* _internalDone, the closure of _done: clear the stall timer, then stop or
\* arm the next invocation
_internalDone(m, elapsedTime, interval) ==
    LET m1 == IF m.timeoutHandlerId # Null
              THEN [m EXCEPT !.timers = clearTimeout(@, m.timeoutHandlerId),
                             !.timeoutHandlerId = Null]
              ELSE m
        timeToInvocation == IF elapsedTime >= interval THEN 0
                            ELSE interval - elapsedTime
        id == FreshId(m1)
    IN  IF m1.active = FALSE
        THEN _stop(m1)
        ELSE [m1 EXCEPT !.nextHandlerId = id,
                        !.timers = @ \cup {[id |-> id, kind |-> "next",
                                            due |-> now + timeToInvocation,
                                            unref |-> (unref = TRUE),
                                            inv |-> Null, by |-> "done"]}]

\* _done as it would be if a failure ended the completion after the error
\* event
_done_ReturnsOnError(m, err) ==
    LET elapsedTime == now - m.startTime
        interval == _interval(elapsedTime)
        m1 == [m EXCEPT !.inUserFunc = FALSE, !.nextHandlerId = Null]
    IN  IF err THEN emitError(m1) ELSE _internalDone(m1, elapsedTime, interval)

\* Reissue.prototype._done, the completion continuation handed to the task
_done(m, err) ==
    LET elapsedTime == now - m.startTime
        interval == _interval(elapsedTime)
        m1 == [m EXCEPT !.inUserFunc = FALSE, !.nextHandlerId = Null]
        m2 == IF err THEN emitError(m1) ELSE m1
    IN  IF m2.threw # "none" THEN m2 ELSE _internalDone(m2, elapsedTime, interval)

\* ---- the state machine ---------------------------------------------------

\* the record of an operation: its name, its argument (the delay given to
\* start(), the failure given to the continuation, the invocation a stall
\* timer was armed for), and what it emitted and threw
Operation(op, arg, r) ==
    [op |-> op, arg |-> arg, emitted |-> r.emitted, threw |-> r.threw]

\* the history of an outstanding invocation: was stop() called during it,
\* and was a stop event published after that call and before its completion
StopHistory(i, op, r) ==
    LET requested == i.stop # "none" \/ (op = "stop" /\ i \in invocations)
    IN  IF i.stop = "published" \/ (requested /\ Count(r.emitted, "stop") > 0)
        THEN "published"
        ELSE IF requested THEN "requested" ELSE "none"

\* the state after a method has run: the fields it has set and the history.
\* A method that would take the behaviour over MaxEvents is not run.
Commit(op, arg, r) ==
    /\ events' = events + (IF op = "start" /\ r.threw = "none" THEN 1 ELSE 0)
                        + (IF op = "doneAgain" THEN 1 ELSE 0)
                        + Cardinality(Outstanding(r.invocations) \ Outstanding(invocations))
    /\ events' <= MaxEvents
    /\ active' = r.active
    /\ startTime' = r.startTime
    /\ inUserFunc' = r.inUserFunc
    /\ nextHandlerId' = r.nextHandlerId
    /\ timeoutHandlerId' = r.timeoutHandlerId
    /\ timers' = r.timers
    /\ invocations' = {[i EXCEPT !.stop = StopHistory(i, op, r)] : i \in r.invocations}
    /\ stopped' = IF Count(r.emitted, "stop") > 0 THEN TRUE
                  ELSE IF op = "start" /\ r.threw = "none" THEN FALSE
                  ELSE stopped
    /\ previous' = IF op = "start" /\ r.threw = "none" THEN {}
                   ELSE IF op = "done"
                        THEN {[startedAt |-> i.startedAt,
                               interval |-> _interval(now - startTime)] :
                                  i \in {j \in invocations :
                                            j.n \notin Outstanding(r.invocations)}}
                        ELSE previous
    /\ continuationCalled' = (continuationCalled \/ op = "done")
    /\ calls' = IF op \in {"done", "doneAgain"} /\ arg = TRUE /\ errorListener = "stop"
                THEN "other"
                ELSE IF op \notin {"start", "stop"} THEN calls
                ELSE IF calls = "none" /\ op = "start" /\ arg = Undefined
                     THEN "start"
                ELSE IF /\ calls = "start" /\ op = "stop"
                        /\ invocations # {}
                        /\ \A i \in invocations : i.phase = "immediate"
                     THEN "start,stop"
                ELSE "other"
    /\ last' = Operation(op, arg, r)
    /\ UNCHANGED <<timeoutMs, unref, intervalOpt, errorListener, context, args,
                   funcContext, funcArgs, now>>

\* the state after construction (the Reissue constructor), for every
\* configuration the model draws
Init ==
    /\ active = FALSE
    /\ startTime = 0
    /\ inUserFunc = FALSE
    /\ nextHandlerId = Null
    /\ timeoutHandlerId = Null
    /\ \E c \in Configs :
          /\ timeoutMs = _timeoutMs(c.timeout)
          /\ unref = c.unref
          /\ intervalOpt = c.interval
          /\ errorListener = c.listener
          /\ context = c.context
          /\ args = c.args
          /\ funcContext = _funcContext(c.context)
          /\ funcArgs = _funcArgs(c.args)
    /\ timers = {}
    /\ invocations = {}
    /\ now = 0
    /\ events = 0
    /\ stopped = FALSE
    /\ previous = {}
    /\ continuationCalled = FALSE
    /\ calls = "none"
    /\ last = [op |-> "create", arg |-> Undefined, emitted |-> <<>>, threw |-> "none"]

\* the caller calls start(delay), delay omitted or a number
Start(delay) ==
    /\ delay \in DelayOpts
    /\ Commit("start", delay, start(Machine, delay))

\* the caller, the task or a subscriber of timeout or stop calls stop()
Stop ==
    /\ Commit("stop", Undefined, stop(Machine))

\* a next-invocation timer fires: _nextInvocation calls _execute
NextInvocation(t) ==
    /\ t \in NextTimers(timers)
    /\ t.due <= now
    /\ Commit("nextInvocation", Undefined,
              _execute([Machine EXCEPT !.timers = @ \ {t}]))

\* a stall timer fires: _onTimeout
OnTimeout(t) ==
    /\ t \in StallTimers(timers)
    /\ t.due <= now
    /\ Commit("onTimeout", t.inv,
              _onTimeout([Machine EXCEPT !.timers = @ \ {t}]))

\* the setImmediate callback of _execute runs: the task is called, by
\* self._func.apply(self._funcContext, self._funcArgs); the call is recorded
\* as the receiver followed by the arguments
ExecuteImmediately(inv) ==
    /\ inv \in invocations
    /\ inv.phase = "immediate"
    /\ Commit("executeImmediately", Undefined,
              [Machine EXCEPT !.invocations =
                   (@ \ {inv}) \cup
                       {[inv EXCEPT !.phase = "user",
                                    !.call = <<funcContext>> \o funcArgs]}])

\* the task calls the completion continuation of an invocation, with or
\* without a failure value
Done(inv, err) ==
    /\ inv \in invocations
    /\ inv.phase = "user"
    /\ Commit("done", err,
              _done([Machine EXCEPT !.invocations = @ \ {inv}], err))

\* the task calls the completion continuation again, for an invocation whose
\* continuation it has already called: boundDone is one function, the same
\* for every invocation, and _done runs whenever it is called.  An
\* invocation begun since is still outstanding: its own task has yet to call
\* the continuation.  The call counts as an event of the behaviour.
DoneAgain(err) ==
    /\ continuationCalled
    /\ Commit("doneAgain", err, _done(Machine, err))

\* time passes
Tick ==
    /\ events < MaxEvents
    /\ events' = events + 1
    /\ now' = now + 1
    /\ last' = Operation("tick", Undefined, Machine)
    /\ UNCHANGED <<active, startTime, inUserFunc, nextHandlerId, timeoutHandlerId,
                   timeoutMs, unref, intervalOpt, errorListener, context, args,
                   funcContext, funcArgs, timers,
                   invocations, stopped, previous, continuationCalled, calls>>

Next ==
    \/ \E delay \in DelayOpts : Start(delay)
    \/ Stop
    \/ \E t \in timers : NextInvocation(t)
    \/ \E t \in timers : OnTimeout(t)
    \/ \E inv \in invocations : ExecuteImmediately(inv)
    \/ \E inv \in invocations, err \in BOOLEAN : Done(inv, err)
    \/ Tick

Spec == Init /\ [][Next]_vars

\* Spec is the program with a task that keeps the contract of the
\* continuation (one call for each invocation); MisuseSpec is the program
\* with a task that may also call it again
MisuseNext ==
    \/ Next
    \/ \E err \in BOOLEAN : DoneAgain(err)

MisuseSpec == Init /\ [][MisuseNext]_vars

\* the event loop runs: time passes, due timers fire, queued setImmediate
\* callbacks run; and every task called calls its continuation
LiveSpec ==
    /\ Init
    /\ [][Next]_vars
    /\ WF_vars(Tick)
    /\ WF_vars(\E t \in timers : NextInvocation(t))
    /\ WF_vars(\E t \in timers : OnTimeout(t))
    /\ WF_vars(\E inv \in invocations : ExecuteImmediately(inv))
    /\ WF_vars(\E inv \in invocations, err \in BOOLEAN : Done(inv, err))

\* ---- properties ----------------------------------------------------------

\* start() has been accepted at least once: the events are accepted start()
\* calls, invocations begun and clock ticks, and now counts the ticks
Started == events > now

\* in a step: the invocations whose continuation the step called
Completed == {i \in invocations : i.n \notin Outstanding(invocations')}

\* in a step: the invocations the step began
Begun == Outstanding(invocations') \ Outstanding(invocations)

\* in a step: the delays of the next-invocation timers the step armed
Armed == {t.due - now : t \in NextTimers(timers') \ NextTimers(timers)}

\* in a step: the timer that fired
Fired ==
    IF last'.op \in {"nextInvocation", "onTimeout"} THEN timers \ timers' ELSE {}

\* C1: invocations are strictly serialized: in every reachable state at most
\* one invocation is outstanding (begun, its continuation not yet called).
C1_Serialized == Cardinality(invocations) <= 1

\* C2: the stop event is terminal: once stop has been published, no
\* invocation begins until a later start() call succeeds.
C2_StopIsTerminal == [][Begun # {} => ~stopped']_vars

\* C3: stop() called while an invocation is outstanding publishes no stop
\* event at the time of the call and leaves the invocation outstanding; the
\* completion of an invocation during which stop() was called publishes stop
\* and arms no next-invocation timer.
C3_StopDuringInvocation ==
    [][/\ (last'.op = "stop" /\ invocations # {}) =>
             /\ Count(last'.emitted, "stop") = 0
             /\ Outstanding(invocations') = Outstanding(invocations)
       /\ (last'.op = "done" /\ \E i \in Completed : i.stop # "none") =>
             /\ Count(last'.emitted, "stop") = 1
             /\ Armed = {}]_vars

\* C4: stop() called while a next-invocation timer is pending publishes stop
\* during the call and cancels the timer: no next-invocation timer is live
\* after the call.
C4_StopCancelsPendingTimer ==
    [][(last'.op = "stop" /\ NextTimers(timers) # {}) =>
          /\ Count(last'.emitted, "stop") >= 1
          /\ NextTimers(timers') = {}]_vars

\* C5: stop() is idempotent: however many times stop() is called while one
\* invocation is outstanding, no stop event is published before the
\* invocation completes and exactly one has been published once it has.
C5_StopPublishedOnce ==
    [][/\ \A i \in invocations' : i.stop # "published"
       /\ last'.op = "done" =>
             \A i \in Completed :
                 i.stop # "none" => Count(last'.emitted, "stop") = 1]_vars

\* C6: start() fails with the already-active error whenever a
\* next-invocation timer is pending or an invocation is outstanding, with or
\* without a stop requested.
C6_StartFailsWhenNotInactive ==
    [][(last'.op = "start" /\ (NextTimers(timers) # {} \/ invocations # {}))
          => last'.threw = "already active"]_vars

\* C7: a start() call that fails with the already-active error changes
\* nothing: flags, handles, timers and outstanding invocations are as before.
C7_FailedStartChangesNothing ==
    [][(last'.op = "start" /\ last'.threw = "already active") =>
          UNCHANGED <<active, inUserFunc, startTime, nextHandlerId,
                      timeoutHandlerId, timers, invocations>>]_vars

\* C7 witness: start() was refused, and the next-invocation timer the earlier
\* start() armed is still live.
C7_Witness ==
    /\ last.op = "start"
    /\ last.threw = "already active"
    /\ active /\ ~inUserFunc
    /\ \E t \in NextTimers(timers) : t.id = nextHandlerId

\* C8: the instance is reusable: a start() call made after stop was
\* published, with no invocation outstanding and no next-invocation timer
\* pending, succeeds.
C8_Reusable ==
    [][(last'.op = "start" /\ stopped /\ Started
           /\ invocations = {} /\ NextTimers(timers) = {})
          => last'.threw = "none"]_vars

\* the scheduler is INACTIVE: its flags say so (never started, or stopped at
\* a completion), or nothing is scheduled and nothing is running (stopped
\* while a timer was pending)
Inactive ==
    \/ ~active /\ ~inUserFunc
    \/ ~inUserFunc /\ invocations = {} /\ NextTimers(timers) = {}

\* C9: stop() on an INACTIVE scheduler publishes stop during the call, arms
\* no timer, starts no invocation and leaves the scheduler INACTIVE.
C9_StopWhenInactive ==
    [][(last'.op = "stop" /\ Inactive) =>
          /\ last'.emitted = <<"stop">>
          /\ timers' \subseteq timers
          /\ Begun = {}
          /\ Outstanding(invocations') = Outstanding(invocations)
          /\ active' = active
          /\ Inactive']_vars

\* C9 witness: stop() was called on a scheduler that had been started and
\* had completed a stop sequence, and it published stop (stop() publishes
\* only on the paths that leave the flags as they were).
C9_Witness ==
    /\ last.op = "stop"
    /\ last.emitted = <<"stop">>
    /\ ~active /\ ~inUserFunc
    /\ invocations = {} /\ timers = {}
    /\ Started

\* C10: catch-up law: the delay a completion arms for the next invocation is
\* max(0, interval - elapsed), elapsed being the time since the completed
\* invocation started and interval the interval function's value for it.
C10_CatchUp ==
    [][last'.op = "done" =>
          \A i \in Completed : \A d \in Armed :
              d = Max(0, _interval(now - i.startedAt) - (now - i.startedAt))]_vars
\* C11: monotonic cadence: within one run (since the last successful start())
\* the start timestamps of two successive invocations are at least the
\* interval value returned for the earlier one apart: an invocation begun by
\* a next-invocation timer begins no earlier than the start of the invocation
\* completed last plus the interval returned at that completion.
C11_MonotonicCadence ==
    [][last'.op = "nextInvocation" =>
          \A p \in previous : now - p.startedAt >= p.interval]_vars

\* C12: when the task passes a failure to its continuation and 'error' has a
\* subscriber, error is published exactly once for that completion and
\* nothing is thrown, and scheduling is as for a successful completion: the
\* same timers are live afterwards (the next invocation armed with the same
\* delay) and the flags and handles are the same.
C12_ErrorDoesNotAffectScheduling ==
    [][(last'.op = "done" /\ last'.arg = TRUE /\ errorListener # "none") =>
          LET ok == _done([Machine EXCEPT !.invocations = @ \ Completed], FALSE)
          IN  /\ Count(last'.emitted, "error") = 1
              /\ last'.threw = "none"
              /\ timers' = ok.timers
              /\ nextHandlerId' = ok.nextHandlerId
              /\ timeoutHandlerId' = ok.timeoutHandlerId
              /\ active' = ok.active
              /\ inUserFunc' = ok.inUserFunc
              /\ Outstanding(invocations') = Outstanding(ok.invocations)]_vars

\* C12 witness: a completion with a failure has published error and armed
\* the next invocation, the interval after the completion.
C12_Witness ==
    /\ last.op = "done"
    /\ last.arg = TRUE
    /\ last.emitted = <<"error">>
    /\ \E t \in NextTimers(timers) : t.id = nextHandlerId /\ t.due > now

\* C13: with a stall threshold configured, the stall timer is armed when an
\* invocation begins, due the threshold later, and disarmed when the
\* continuation of that invocation is called; when it fires for an invocation
\* that is still outstanding (and during which stop() was not called: that
\* case is C15's) timeout is published, and no timeout is published for an
\* invocation whose continuation has been called.
C13_StallTimerLifecycle ==
    [][/\ timeoutMs # Null =>
             \A n \in Begun : \E t \in StallTimers(timers') :
                 t.inv = n /\ t.due = now + timeoutMs
       /\ last'.op = "done" =>
             \A i \in Completed : \A t \in StallTimers(timers') : t.inv # i.n
       /\ last'.op = "onTimeout" =>
             \A t \in Fired :
                 /\ (\E i \in invocations : i.n = t.inv /\ i.stop = "none")
                       => Count(last'.emitted, "timeout") = 1
                 /\ t.inv \notin Outstanding(invocations)
                       => Count(last'.emitted, "timeout") = 0]_vars

\* C14: timeout is published at most once per invocation and only while
\* that invocation is outstanding: a stall timer that publishes timeout was
\* armed for an invocation whose continuation has not been called, it
\* publishes it once, and no other stall timer of that invocation is live.
C14_TimeoutOnlyWhileOutstanding ==
    [][(last'.op = "onTimeout" /\ Count(last'.emitted, "timeout") > 0) =>
          \A t \in Fired :
              /\ t.inv \in Outstanding(invocations)
              /\ Count(last'.emitted, "timeout") = 1
              /\ \A u \in StallTimers(timers') : u.inv # t.inv]_vars

\* C15 (as claimed): the stall notification is independent of a stop
\* request: when the stall timer of an outstanding invocation fires after
\* stop() was called during that invocation, timeout is still published.
C15_TimeoutIndependentOfStop ==
    [][last'.op = "onTimeout" =>
          ((\E i \in invocations : i.n = last'.arg /\ i.stop # "none")
              => Count(last'.emitted, "timeout") = 1)]_vars

\* C15 (amended): a stop request does not disarm the stall timer: stop()
\* leaves every stall timer armed; but a stall timer that fires publishes
\* timeout only if the scheduler is active at that moment, and nothing while
\* the stop request stands.
C15_TimeoutOnlyIfActive ==
    [][/\ last'.op = "stop" => StallTimers(timers') = StallTimers(timers)
       /\ last'.op = "onTimeout" =>
             Count(last'.emitted, "timeout") = (IF active THEN 1 ELSE 0)]_vars

\* C15 witness: the stall timer of an outstanding invocation has fired after
\* stop() was called during that invocation, and nothing was published.
C15_Witness ==
    /\ last.op = "onTimeout"
    /\ last.emitted = <<>>
    /\ ~active
    /\ \E i \in invocations : i.n = last.arg /\ i.stop = "requested"

\* C16: when stop() was called during an invocation, no timeout is published
\* for that invocation afterwards, even if its stall timer fires before the
\* continuation is called; the invocation is not repeated, and stop is
\* published at its completion.
C16_NoTimeoutAfterStop ==
    [][/\ last'.op = "onTimeout" =>
             ((\E i \in invocations : i.n = last'.arg /\ i.stop # "none")
                 => Count(last'.emitted, "timeout") = 0)
       /\ last'.op = "done" =>
             \A i \in Completed :
                 i.stop # "none" =>
                     /\ Count(last'.emitted, "stop") >= 1
                     /\ Armed = {}
                     /\ Begun = {}]_vars

C18_UndelayedStartIsSynchronous ==
    [][(last'.op = "start" /\ last'.arg = Undefined /\ last'.threw = "none") =>
          /\ Begun # {}
          /\ \A i \in invocations' : i.n \in Begun => i.phase = "user"]_vars

\* C19: after start() without a delay, a stop() issued immediately afterwards
\* (before the task is called, and with no other call of start() or stop())
\* does not cancel the first invocation: stop() publishes nothing and leaves
\* the invocation queued, no other invocation begins, and when the
\* continuation of that invocation is called stop is published once and no
\* next invocation is armed.
C19_StopAfterUndelayedStart ==
    [][calls' = "start,stop" =>
          /\ last'.op = "stop" =>
                 /\ last'.emitted = <<>>
                 /\ invocations' # {}
                 /\ \A i \in invocations' : i.phase = "immediate"
          /\ Begun = {}
          /\ Cardinality(invocations') <= 1
          /\ last'.op = "done" =>
                 /\ Count(last'.emitted, "stop") = 1
                 /\ Armed = {}
                 /\ NextTimers(timers') = {}]_vars

\* C20: start(delay) with a numeric delay >= 0, 0 included, arms a
\* next-invocation timer due delay later and begins no invocation during the
\* call; the first invocation begins only when that timer fires, no earlier
\* than it is due: while the timer armed by start(delay) is pending no
\* invocation begins.
C20_DelayedStartArmsTimer ==
    [][/\ (last'.op = "start" /\ last'.arg # Undefined /\ last'.threw = "none") =>
             /\ Begun = {}
             /\ invocations' = invocations
             /\ Armed = {last'.arg}
             /\ \E t \in NextTimers(timers') \ NextTimers(timers) :
                    t.id = nextHandlerId' /\ t.due = now + last'.arg /\ t.by = "start"
       /\ \A t \in NextTimers(timers) :
             t.by = "start" =>
                 /\ t \in Fired => t.due <= now
                 /\ t \notin Fired => Begun = {}]_vars

\* C21: the events of one invocation are published in this order: at most
\* one timeout, then at most one error at completion, then either the next
\* invocation is armed or stop is published.  A timeout is published only
\* for an invocation that is outstanding and for which no stop has been
\* published, and by its only stall timer; a completion publishes at most
\* one error, before any stop and never after a stop of the same invocation,
\* and then either arms the next invocation or publishes stop.
C21_EventOrder ==
    [][/\ (last'.op = "onTimeout" /\ Count(last'.emitted, "timeout") > 0) =>
             /\ \E i \in invocations : i.n = last'.arg /\ i.stop # "published"
             /\ \A u \in StallTimers(timers') : u.inv # last'.arg
       /\ last'.op = "done" =>
             /\ Count(last'.emitted, "error") <= 1
             /\ \A i \in Completed :
                    i.stop = "published" => Count(last'.emitted, "error") = 0
             /\ \A k, l \in 1..Len(last'.emitted) :
                    (last'.emitted[k] = "stop" /\ last'.emitted[l] = "error") => l < k
             /\ \/ Armed # {} /\ Count(last'.emitted, "stop") = 0
                \/ Armed = {} /\ Count(last'.emitted, "stop") > 0]_vars

\* C22: if stop() is called while an invocation is outstanding and the
\* continuation of that invocation is never called, stop is never published:
\* a step that publishes stop while an invocation during which stop() was
\* called is outstanding is the completion of that invocation.
C22_NoStopWithoutCompletion ==
    [][Count(last'.emitted, "stop") > 0 =>
          \A i \in invocations :
              i.stop # "none" => (last'.op = "done" /\ i \in Completed)]_vars

\* C23: liveness of stop: when timers fire and every invocation calls its
\* continuation, every stop() call is followed by a stop publication: in the
\* call itself when no invocation is outstanding, and eventually when one is.
C23_StopLiveness ==
    /\ [][(last'.op = "stop" /\ invocations = {})
            => Count(last'.emitted, "stop") > 0]_vars
    /\ (\E i \in invocations : i.stop = "requested")
          ~> (Count(last.emitted, "stop") > 0)

\* C24: recurrence: after a successful start(), as long as stop() is not
\* called, every completion arms the next invocation, and the timer armed
\* begins an invocation when it fires; and the next invocation is armed only
\* in the call of a continuation, never before.
C24_Recurrence ==
    [][/\ (/\ last'.op = "done"
           /\ active /\ ~stopped
           /\ \A i \in Completed : i.stop = "none"
           /\ ~(last'.arg = TRUE /\ errorListener = "stop")) =>
             /\ Armed # {}
             /\ \E t \in NextTimers(timers') \ NextTimers(timers) :
                    t.id = nextHandlerId'
       /\ \A t \in NextTimers(timers') \ NextTimers(timers) :
             t.by = "done" => (last'.op = "done" /\ Completed # {})
       /\ last'.op = "nextInvocation" => Begun # {}]_vars

\* C25: on every completion the interval function is called with the elapsed
\* time of the invocation that has just finished: the elapsed time the code
\* computes (the time of the call minus the recorded start time) is
\* non-negative and is the time since that invocation began, and the value
\* returned for it is the interval the next delay is computed from.
C25_ElapsedTimeOfFinishedInvocation ==
    [][last'.op = "done" =>
          \A i \in Completed :
              /\ now - startTime >= 0
              /\ now - startTime = now - i.startedAt
              /\ \A p \in previous' : p.interval = _interval(now - i.startedAt)
              /\ \A d \in Armed :
                     \A p \in previous' :
                         d = Max(0, p.interval - (now - startTime))]_vars

\* C26: when the unref option is set, every live timer is unref'ed, in every
\* reachable state: the timer of start(delay), the timer armed at a
\* completion and the stall timer.
C26_TimersDetached == unref => \A t \in timers : t.unref

\* C26 witness: with the unref option set, a timer armed by start(delay), one
\* armed at a completion and a stall timer are live.
C26_Witness ==
    /\ unref
    /\ \E t \in timers : t.by = "start"
    /\ \E t \in timers : t.by = "done"
    /\ \E t \in timers : t.by = "execute"

\* C27: every invocation calls the task with the configured context as
\* receiver (null when none is configured) and with the configured arguments
\* in their order followed by the completion continuation as the last
\* argument, on the first and on every later invocation.
C27_TaskCall ==
    \A i \in invocations :
        i.phase = "user" =>
            LET fixedArgs == IF args = {} THEN <<>> ELSE CHOOSE a \in args : TRUE
                receiver == Head(i.call)
                arguments == Tail(i.call)
            IN  /\ receiver = (IF context = {} THEN "null"
                                ELSE CHOOSE c \in context : TRUE)
                /\ Len(arguments) = Len(fixedArgs) + 1
                /\ \A k \in 1..Len(fixedArgs) : arguments[k] = fixedArgs[k]
                /\ arguments[Len(arguments)] = "boundDone"

\* C27 witness: a later invocation (one begun after a completion) has called
\* the task on the configured context with two configured arguments and the
\* continuation.
C27_Witness ==
    /\ previous # {}
    /\ \E i \in invocations :
          i.phase = "user" /\ i.call = <<"ctx", "a", "b", "boundDone">>

\* C28: whenever the scheduler is INACTIVE (never started, or stop has been
\* published since the last successful start() and no invocation is
\* outstanding) no timer is live, neither a next-invocation timer nor a
\* stall timer.
C28_InactiveHoldsNoTimer ==
    (~Started \/ (stopped /\ invocations = {})) => timers = {}

\* C29: in every reachable state no next-invocation timer is live while an
\* invocation is outstanding, a stall timer is live only while an invocation
\* is outstanding, and at most one timer of each kind is live.
C29_OneTimerAtATime ==
    /\ invocations # {} => NextTimers(timers) = {}
    /\ StallTimers(timers) # {} => invocations # {}
    /\ Cardinality(NextTimers(timers)) <= 1
    /\ Cardinality(StallTimers(timers)) <= 1

\* C30: a task failure is never thrown and never fatal to the scheduler:
\* with or without an error subscriber, a completion that carries a failure
\* throws nothing, disarms the stall timer of the invocation and either arms
\* the next invocation or publishes stop, so that the scheduler is not left
\* active with no invocation outstanding and no next-invocation timer armed.
C30_FailureNeverThrown ==
    [][(last'.op = "done" /\ last'.arg = TRUE) =>
          /\ last'.threw = "none"
          /\ \A i \in Completed : \A t \in StallTimers(timers') : t.inv # i.n
          /\ Armed # {} \/ Count(last'.emitted, "stop") > 0
          /\ ~(active' /\ invocations' = {} /\ NextTimers(timers') = {})]_vars

\* C31: stop() called from inside an error subscriber, while a failing
\* completion is being processed, ends the schedule: that completion arms no
\* next-invocation timer, so that no invocation follows it.
C31_StopInErrorSubscriber ==
    [][(/\ last'.op = "done" /\ last'.arg = TRUE
        /\ errorListener = "stop") =>
          /\ Armed = {}
          /\ \A t \in NextTimers(timers') : t.by # "done"]_vars

\* C32: a stop event is never published while an invocation is outstanding
\* (begun, its continuation not yet called), however many stop() calls are
\* made and wherever they are placed: a step that publishes stop leaves no
\* invocation outstanding.
C32_NoStopWhileOutstanding ==
    [][Count(last'.emitted, "stop") > 0 => invocations' = {}]_vars

\* in a state: the schedule is single, with at most one next-invocation timer
\* live and at most one invocation outstanding
SingleSchedule ==
    /\ Cardinality(NextTimers(timers)) <= 1
    /\ Cardinality(invocations) <= 1

\* C33: a call of the completion continuation beyond the first for an
\* invocation does not multiply the schedule: where at most one
\* next-invocation timer was live and at most one invocation outstanding it
\* is still so after the call, and where stop has been published the call
\* publishes no second stop.
C33_ExtraCallsDoNotMultiply ==
    [][last'.op = "doneAgain" =>
          /\ SingleSchedule => SingleSchedule'
          /\ stopped => Count(last'.emitted, "stop") = 0]_vars
====
